---- MODULE Spec2Model ----
(***************************************************************************)
(* A model of bot.py: an RSS-to-Telegram bridge.  One run of main() loads  *)
(* the persisted list of seen fingerprints, collects the entries of every  *)
(* feed of FEED_URLS, sorts them old -> new, sends the unseen ones (at     *)
(* most one per source when ONE_PER_SOURCE, stopping at MAX_POSTS_PER_RUN  *)
(* or at the first failed send) and persists the seen list cut to          *)
(* SEEN_LIMIT.  Runs do not overlap; the state file is what they share.    *)
(*                                                                         *)
(* A Python str is modelled as a sequence of one-character strings, so     *)
(* that the text utilities are computed as the code computes them.         *)
(***************************************************************************)
EXTENDS Integers, Sequences, FiniteSets, TLC

(***************************************************************************)
(* Bounds of the model.                                                    *)
(***************************************************************************)
\* number of runs of main() a behaviour holds
MaxRuns == 3
\* SEEN_LIMIT is drawn from 0..MaxSeenLimit
MaxSeenLimit == 2
\* MAX_POSTS_PER_RUN is drawn from 0..MaxPostsCap
MaxPostsCap == 3
\* number of superficial changes made to an entry before it is fingerprinted
MaxVariations == 2

(***************************************************************************)
(* Text utilities (bot.py, "Text utilities").                              *)
(***************************************************************************)
\* the characters the regular expression \s and str.strip() treat as space
IsSpace(c) == c \in {" ", "\t", "\n"}

\* str.lower() on one character of the model's alphabet
LowerChar(c) ==
    CASE c = "A" -> "a"
      [] c = "B" -> "b"
      [] c = "C" -> "c"
      [] c = "H" -> "h"
      [] c = "S" -> "s"
      [] c = "W" -> "w"
      [] OTHER -> c

\* str.lower()
lower(s) == [i \in 1..Len(s) |-> LowerChar(s[i])]

RECURSIVE lstrip(_)
\* str.lstrip(): drop the leading whitespace
lstrip(s) == IF s # <<>> /\ IsSpace(Head(s)) THEN lstrip(Tail(s)) ELSE s

RECURSIVE rstrip(_)
\* str.rstrip(): drop the trailing whitespace
rstrip(s) ==
    IF s # <<>> /\ IsSpace(s[Len(s)]) THEN rstrip(SubSeq(s, 1, Len(s) - 1)) ELSE s

\* str.strip()
strip(s) == rstrip(lstrip(s))

RECURSIVE collapse_ws(_)
\* re.sub(r"\s+", " ", s): every maximal run of whitespace becomes one space
collapse_ws(s) ==
    IF s = <<>> THEN <<>>
    ELSE IF IsSpace(Head(s))
         THEN <<" ">> \o collapse_ws(lstrip(s))
         ELSE <<Head(s)>> \o collapse_ws(Tail(s))

\* norm_space(s): collapse the whitespace of the stripped string
norm_space(s) == collapse_ws(strip(s))

\* normalize_text(s): lower, strip, then collapse the whitespace
normalize_text(s) == collapse_ws(strip(lower(s)))

(***************************************************************************)
(* Source detection (bot.py, "Source detection").                          *)
(***************************************************************************)
\* the ASCII letters of the model's alphabet
IsAlpha(c) == c \in {"a", "b", "c", "h", "s", "w", "x", "A", "B", "C", "H", "S", "W"}

\* the characters urlsplit accepts in a scheme
IsSchemeChar(c) == IsAlpha(c) \/ c \in {"1", "2", "+", "-", "."}

\* str.find(c): the first index of character c in s, 0 when there is none
FindChar(s, c) ==
    IF \E i \in 1..Len(s) : s[i] = c
    THEN CHOOSE i \in 1..Len(s) : s[i] = c /\ \A j \in 1..(i - 1) : s[j] # c
    ELSE 0

\* urlsplit's clean-up: leading spaces dropped, tabs and newlines removed
UrlClean(url) == SelectSeq(lstrip(url), LAMBDA c : c \notin {"\t", "\n"})

\* the url without its "scheme:" prefix, when it has one
AfterScheme(url) ==
    LET i == FindChar(url, ":")
    IN  IF i > 1 /\ IsAlpha(url[1]) /\ \A j \in 1..(i - 1) : IsSchemeChar(url[j])
        THEN SubSeq(url, i + 1, Len(url))
        ELSE url

\* urlparse(url).netloc: what follows "//" up to the next "/", "?" or "#"
Netloc(url) ==
    LET rest == AfterScheme(UrlClean(url))
    IN  IF Len(rest) >= 2 /\ rest[1] = "/" /\ rest[2] = "/"
        THEN LET body == SubSeq(rest, 3, Len(rest))
                 ends == {i \in 1..Len(body) : body[i] \in {"/", "?", "#"}}
                 stop == IF ends = {} THEN Len(body) + 1
                         ELSE CHOOSE i \in ends : \A j \in ends : i <= j
             IN  SubSeq(body, 1, stop - 1)
        ELSE <<>>

RECURSIVE RemoveWww(_)
\* str.replace("www.", ""): every occurrence removed, scanning left to right
RemoveWww(s) ==
    IF Len(s) >= 4 /\ SubSeq(s, 1, 4) = <<"w", "w", "w", ".">>
    THEN RemoveWww(SubSeq(s, 5, Len(s)))
    ELSE IF s = <<>> THEN <<>>
    ELSE <<Head(s)>> \o RemoveWww(Tail(s))

\* host_from_url(url)
host_from_url(url) == RemoveWww(lower(Netloc(url)))

\* the literal fallback label "Source"
SourceLabel == <<"S", "o", "u", "r", "c", "e">>

\* nice_source_name(feed_obj, fallback_link): the feed's title, else the host of
\* the fallback link, else "Source"
nice_source_name(feed_obj, fallback_link) ==
    LET title == norm_space(feed_obj.title)
        host == host_from_url(fallback_link)
    IN  IF title # <<>> THEN title
        ELSE IF host # <<>> THEN host
        ELSE SourceLabel

(***************************************************************************)
(* Dedup fingerprint (bot.py, "Dedup fingerprint").                        *)
(***************************************************************************)
\* the length of the summary prefix that enters the fingerprint
SummaryCap == 600

\* the length of a SHA-256 hex digest
HexDigestLen == 64

\* s[:n]
Prefix(s, n) == SubSeq(s, 1, IF Len(s) < n THEN Len(s) ELSE n)

\* getattr(entry, "summary", "") or getattr(entry, "description", "")
SummaryOrDescription(entry) ==
    IF entry.summary # <<>> THEN entry.summary ELSE entry.description

\* the string to hash without the source name in it
FingerprintBase_nosource(entry, source) ==
    normalize_text(entry.title) \o <<"|">>
      \o Prefix(normalize_text(SummaryOrDescription(entry)), SummaryCap)
      \o <<"|">> \o normalize_text(entry.link)

\* the string make_fingerprint hashes: source|title|summary[:600]|link
FingerprintBase(entry, source) ==
    normalize_text(source) \o <<"|">> \o normalize_text(entry.title) \o <<"|">>
      \o Prefix(normalize_text(SummaryOrDescription(entry)), SummaryCap)
      \o <<"|">> \o normalize_text(entry.link)

\* hashlib.sha256(base).hexdigest(): the digest is modelled by the string it is
\* the digest of (SHA-256 taken as collision-free); its length is HexDigestLen
sha256_hexdigest(base) == [digest_of |-> base, len |-> HexDigestLen]

\* make_fingerprint(entry, source)
make_fingerprint(entry, source) == sha256_hexdigest(FingerprintBase(entry, source))

(***************************************************************************)
(* Feed parsing (bot.py, "Feed parsing").                                  *)
(* A struct_time is a tuple; the model keeps <<t>>, t the instant it       *)
(* names, and <<>> for None.  time.mktime raises OverflowError for an      *)
(* instant outside the platform's range.                                   *)
(***************************************************************************)
\* the instants time.mktime can convert
MktimeRange == -2..9

\* entry_time(entry): published, else updated, else 0; 0 when mktime raises
entry_time(entry) ==
    LET t == IF entry.published_parsed # <<>> THEN entry.published_parsed
             ELSE entry.updated_parsed
    IN  IF t # <<>>
        THEN IF t[1] \in MktimeRange THEN t[1] ELSE 0
        ELSE 0

\* parse_feed(url), given the document f that feedparser.parse returned:
\* the pair (entries, source)
parse_feed(f) ==
    LET fallback_link ==
            IF f.entries # <<>> /\ f.entries[1].link # <<>>
            THEN f.entries[1].link ELSE <<>>
    IN  [entries |-> f.entries, source |-> nice_source_name(f, fallback_link)]

(***************************************************************************)
(* The feed documents feedparser.parse can return in the model.  An entry  *)
(* attribute that is absent reads as the empty string (getattr's default). *)
(***************************************************************************)
Entry(title, summary, description, link, published, updated) ==
    [title |-> title, summary |-> summary, description |-> description,
     link |-> link, published_parsed |-> published, updated_parsed |-> updated]

\* three entries titled A, B, C with ascending timestamps
EntryA == Entry(<<"A">>, <<"x">>, <<>>, <<>>, <<1>>, <<>>)
EntryB == Entry(<<"B">>, <<>>, <<"x">>, <<>>, <<2>>, <<5>>)
EntryC == Entry(<<"C">>, <<>>, <<>>, <<>>, <<>>, <<3>>)
\* entry B again, in other casing and whitespace, without a timestamp
EntryB2 == Entry(<<" ", "b", "\t">>, <<"X", " ">>, <<>>, <<>>, <<>>, <<>>)
\* a link-only entry whose timestamp time.mktime cannot convert
EntryLink == Entry(<<>>, <<>>, <<>>, <<"/", "/", "w", "w", "w", ".", "h", "/", "x">>,
                   <<99>>, <<>>)
\* an entry without title, summary and link, dated before the epoch
EntryEmpty == Entry(<<>>, <<>>, <<>>, <<>>, <<-1>>, <<>>)

Feed(title, entries) == [title |-> title, entries |-> entries]

DocABC == Feed(<<"S", "1">>, <<EntryA, EntryB, EntryC>>)
\* another source carrying entry A
DocOther == Feed(<<"S", "2">>, <<EntryA>>)
\* the first source again, newest first, with entry B repeated
DocAgain == Feed(<<" ", "S", "1">>, <<EntryC, EntryB2>>)
\* the first source with entry A alone
DocOne == Feed(<<"S", "1">>, <<EntryA>>)
\* a feed without a title: its source name comes from the first link
DocNoTitle == Feed(<<>>, <<EntryLink, EntryEmpty>>)
\* a feed that parsed to nothing (feedparser reports most errors this way)
DocNothing == Feed(<<>>, <<>>)

\* the document of a name
Document(name) ==
    CASE name = "ABC" -> DocABC
      [] name = "Other" -> DocOther
      [] name = "Again" -> DocAgain
      [] name = "NoTitle" -> DocNoTitle
      [] name = "One" -> DocOne
      [] OTHER -> DocNothing

\* the names of the documents
DocNames == {"ABC", "Other", "Again", "NoTitle", "One", "Nothing"}

\* parse_feed of every document: the pair (entries, source)
Parsed == [name \in DocNames |-> parse_feed(Document(name))]

\* the (entry, source) pairs the feeds can hold
KnownItems ==
    UNION {{[e |-> Parsed[d].entries[k], source |-> Parsed[d].source] :
               k \in 1..Len(Parsed[d].entries)} : d \in DocNames}

\* make_fingerprint of every (entry, source) pair the feeds can hold
Fingerprints == [c \in KnownItems |-> make_fingerprint(c.e, c.source)]

\* the documents, by name, the feed at an index of FEED_URLS can parse to;
\* a feed after the second is down, parse_feed raises for it
FeedDocs(url) ==
    CASE url = 1 -> {"ABC", "NoTitle"}
      [] url = 2 -> {"Other", "Again", "Nothing"}
      [] OTHER -> {}

\* two feeds of different source names that carry the same single entry
TwinDocs(url) ==
    CASE url = 1 -> {"One"}
      [] url = 2 -> {"Other"}
      [] OTHER -> {}

(***************************************************************************)
(* State (bot.py, "State").  The state file is a record: kind says what    *)
(* open() and json.load() make of it, seen is the list under "seen" when   *)
(* the file holds one.                                                     *)
(***************************************************************************)
\* the file kinds load_state does not accept: open() raises (the file is
\* missing or unreadable), json.load raises, the document is not a dict
\* holding a list under "seen"
RejectedKinds == {"missing", "badjson", "noseenlist"}

File(kind, seen) == [kind |-> kind, seen |-> seen]

\* load_state catching only the error of open(): an error of json.load
\* escapes it
load_state_uncaught(file) ==
    IF file.kind \in {"ok", "unhashable"} THEN file
    ELSE IF file.kind = "badjson" THEN File("raised", <<>>)
    ELSE File("ok", <<>>)

\* load_state(): the parsed document when it is a dict with a list under "seen"
\* ("unhashable": a list holding a list or dict), {"seen": []} otherwise
load_state(file) ==
    IF file.kind \in {"ok", "unhashable"} THEN file ELSE File("ok", <<>>)

\* save_state(state): the file holds the dumped state
save_state(state) == state

\* s[start:] for a Python list s (start counts from 0, negative from the end)
PySliceFrom(s, start) ==
    LET n == Len(s)
        from == IF start < 0 THEN (IF n + start < 0 THEN 0 ELSE n + start)
                ELSE (IF start > n THEN n ELSE start)
    IN  SubSeq(s, from + 1, n)

\* the slice one entry short: (seen + new_seen)[1 - SEEN_LIMIT:]
TruncateSeen_short(all_seen, seen_limit) == PySliceFrom(all_seen, 1 - seen_limit)

\* (seen + new_seen)[-SEEN_LIMIT:]
TruncateSeen(all_seen, seen_limit) == PySliceFrom(all_seen, 0 - seen_limit)

Range(s) == {s[i] : i \in 1..Len(s)}

(***************************************************************************)
(* main(): the state of a run and of the world around it.                  *)
(***************************************************************************)
\* the number of feeds in FEED_URLS
NumFeeds == 2

FEED_URLS == [i \in 1..NumFeeds |-> i]

VARIABLES
    SEEN_LIMIT,         \* configuration, fixed over all runs
    MAX_POSTS_PER_RUN,
    ONE_PER_SOURCE,
    file,               \* the content of STATE_FILE
    pc,                 \* where main() is: idle, collect, sort, loop, commit,
                        \* done (returned), aborted (an exception escaped)
    runs,               \* the number of runs started
    seen,               \* state["seen"] as loaded
    seen_set,
    collected,          \* (entry, source) pairs; ord is the collection rank
    feed_i,             \* the index in FEED_URLS of the feed to fetch next
    pos,                \* the index in collected of the candidate at hand
    posted,
    new_seen,
    used_sources,
    \* what happened in the run, on record for the properties
    fetched,            \* per feed fetched: whether parse_feed raised, else
                        \* the name of the document it parsed
    attempted,          \* the indexes in collected telegram_send was called for
    sent,               \* the items telegram_send delivered, in order (pos is
                        \* the index in collected)
    failed_at,          \* the index in collected whose send raised, else 0
    saves,              \* the number of save_state calls of the run
    file_at_start,      \* the state file when the run started
    persisted_before,   \* the fingerprints earlier runs persisted at their end
    web,                \* per feed of FEED_URLS, the documents it can parse
                        \* to over the runs
    probe               \* two entries of one source and their fingerprints,
                        \* for the properties of make_fingerprint alone

vars == <<SEEN_LIMIT, MAX_POSTS_PER_RUN, ONE_PER_SOURCE, file, pc, runs, seen,
          seen_set, collected, feed_i, pos, posted, new_seen, used_sources,
          fetched, attempted, sent, failed_at, saves, file_at_start,
          persisted_before, web, probe>>

config == <<SEEN_LIMIT, MAX_POSTS_PER_RUN, ONE_PER_SOURCE>>
main_vars == <<config, file, pc, runs, seen, seen_set, collected, feed_i, pos,
               posted, new_seen, used_sources, fetched, attempted, sent,
               failed_at, saves, file_at_start, persisted_before, web>>
run_log == <<fetched, attempted, sent, failed_at, saves>>
loop_vars == <<pos, posted, new_seen, used_sources>>

\* the fingerprint of an entry of a feed document
FpOf(entry, doc) == make_fingerprint(entry, parse_feed(doc).source)

\* the fingerprint of an item of earlier days, no longer in any feed
OldFp == sha256_hexdigest(<<"o", "l", "d">>)

\* the state files a first run can find: absent or damaged ones, and valid
\* ones, among them a list of two fingerprints (longer than a SEEN_LIMIT of
\* 0 or 1)
InitialFiles ==
    {File(k, <<>>) : k \in RejectedKinds \cup {"unhashable", "ok"}}
      \cup {File("ok", <<OldFp, FpOf(EntryB, DocABC)>>)}

\* no pair of entries is under examination
NoProbe == [stage |-> "none"]

\* main() has not run yet
NoRunYet ==
    /\ pc = "idle"
    /\ runs = 0
    /\ seen = <<>>
    /\ seen_set = {}
    /\ collected = <<>>
    /\ feed_i = 1
    /\ pos = 1
    /\ posted = 0
    /\ new_seen = <<>>
    /\ used_sources = {}
    /\ fetched = <<>>
    /\ attempted = <<>>
    /\ sent = <<>>
    /\ failed_at = 0
    /\ saves = 0
    /\ file_at_start = file
    /\ persisted_before = {}

\* the feeds at large
MainWeb == [i \in 1..NumFeeds |-> FeedDocs(FEED_URLS[i])]

\* the feeds of the two-sources scenario
TwinWeb == [i \in 1..NumFeeds |-> TwinDocs(FEED_URLS[i])]

\* any configuration and state file, before the first run, with feeds w
Unstarted(w) ==
    /\ SEEN_LIMIT \in 0..MaxSeenLimit
    /\ MAX_POSTS_PER_RUN \in 0..MaxPostsCap
    /\ ONE_PER_SOURCE \in BOOLEAN
    /\ file \in InitialFiles
    /\ NoRunYet
    /\ web = w
    /\ probe = NoProbe

Init == Unstarted(MainWeb)

(***************************************************************************)
(* The decisions of main(), one definition each.                           *)
(***************************************************************************)
\* main() without the early return
NothingCollected_ignored(c) == FALSE

\* line 223: if not collected: return
NothingCollected(c) == c = <<>>

RECURSIVE SortByKeys(_, _)
\* the items of c by ascending key, items of equal key in the order of c
SortByKeys(c, keys) ==
    IF keys = {} THEN <<>>
    ELSE LET k == CHOOSE x \in keys : \A y \in keys : x <= y
         IN  SelectSeq(c, LAMBDA item : entry_time(item.e) = k)
               \o SortByKeys(c, keys \ {k})

\* main() without the sort
SortOldToNew_unsorted(c) == c

\* line 227: collected.sort(key=lambda x: entry_time(x[0])), a stable sort
SortOldToNew(c) == SortByKeys(c, {entry_time(c[i].e) : i \in 1..Len(c)})

\* line 235: not fp (the digest is an empty string)
FpEmpty(fp) == fp.len = 0

\* the loop without the seen filter
AlreadySeen_unchecked(fp, ss) == FALSE

\* line 235: fp in seen_set
AlreadySeen(fp, ss) == fp \in ss

\* the loop without the one-per-source filter
SourceUsed_ignored(one_per_source, source, used) == FALSE

\* line 238: ONE_PER_SOURCE and source in used_sources
SourceUsed(one_per_source, source, used) == one_per_source /\ source \in used

\* lines 235-239: the candidate is passed over (continue)
Skipped(fp, source, ss, one_per_source, used) ==
    \/ FpEmpty(fp)
    \/ AlreadySeen(fp, ss)
    \/ SourceUsed(one_per_source, source, used)

\* the set of seen fingerprints starting empty
SeenSetOf_empty(seen_list) == {}

\* line 210: set(seen)
SeenSetOf(seen_list) == Range(seen_list)

\* the fingerprint of a sent item is not noted
MarkSeen_forgotten(ss, fp) == ss

\* line 248: seen_set.add(fp)
MarkSeen(ss, fp) == ss \cup {fp}

\* the cap compared with > in place of >=
CapReached_late(n, max_posts) == n > max_posts

\* line 256: posted >= MAX_POSTS_PER_RUN
CapReached(n, max_posts) == n >= max_posts

\* a send that raised is passed over and the loop goes on
OnSendFailure_continue == "continue"

\* lines 252-254: a send that raised ends the loop
OnSendFailure == "break"

\* a feed that raised ends the collecting
OnFeedFailure_break == "break"

\* lines 220-221: a feed that raised is passed over
OnFeedFailure == "continue"

\* where main() goes on after a loop iteration that did not break: the next
\* candidate, or past the loop when there is none
AfterIteration(next_pos, c) == IF next_pos > Len(c) THEN "commit" ELSE "loop"

\* the pairs (e, source) lines 218-219 append for one parsed feed
Appended(parsed, c) ==
    [i \in 1..Len(parsed.entries) |->
        [e |-> parsed.entries[i], source |-> parsed.source, ord |-> Len(c) + i]]

(***************************************************************************)
(* main(), step by step.                                                   *)
(***************************************************************************)
\* lines 208-212: a run starts; load_state, seen, seen_set, collected.
\* An exception out of load_state, or set(seen) on an unhashable element,
\* escapes main().
StartRun ==
    /\ pc \in {"idle", "done", "aborted"}
    /\ runs < MaxRuns
    /\ runs' = runs + 1
    /\ file_at_start' = file
    /\ persisted_before' =
          IF saves = 0 THEN persisted_before
          ELSE persisted_before \cup Range(file.seen)
    /\ LET state == load_state(file)
       IN  IF state.kind = "ok"
           THEN /\ seen' = state.seen
                /\ seen_set' = SeenSetOf(state.seen)
                /\ pc' = "collect"
           ELSE /\ seen' = <<>>
                /\ seen_set' = {}
                /\ pc' = "aborted"
    /\ collected' = <<>>
    /\ feed_i' = 1
    /\ pos' = 1
    /\ posted' = 0
    /\ new_seen' = <<>>
    /\ used_sources' = {}
    /\ fetched' = <<>>
    /\ attempted' = <<>>
    /\ sent' = <<>>
    /\ failed_at' = 0
    /\ saves' = 0
    /\ UNCHANGED <<probe, web, config, file>>

\* the documents the feed at hand can parse to
DocsAtHand ==
    IF feed_i <= Len(FEED_URLS) THEN web[feed_i] ELSE {}

\* lines 215-219: the feed at hand parsed to doc; its entries are appended
FetchParsed(doc) ==
    /\ pc = "collect"
    /\ feed_i <= Len(FEED_URLS)
    /\ collected' = collected \o Appended(Parsed[doc], collected)
    /\ fetched' = Append(fetched, [raised |-> FALSE, doc |-> doc])
    /\ feed_i' = feed_i + 1
    /\ pc' = IF feed_i + 1 > Len(FEED_URLS) THEN "sort" ELSE "collect"
    /\ UNCHANGED <<probe, web, config, file, runs, seen, seen_set, loop_vars, attempted, sent,
                   failed_at, saves, file_at_start, persisted_before>>

\* lines 216-221: parse_feed raised for the feed at hand
FetchRaised ==
    /\ pc = "collect"
    /\ feed_i <= Len(FEED_URLS)
    /\ fetched' = Append(fetched, [raised |-> TRUE, doc |-> "Nothing"])
    /\ IF OnFeedFailure = "continue"
       THEN /\ feed_i' = feed_i + 1
            /\ pc' = IF feed_i + 1 > Len(FEED_URLS) THEN "sort" ELSE "collect"
       ELSE /\ feed_i' = feed_i
            /\ pc' = IF OnFeedFailure = "break" THEN "sort" ELSE "aborted"
    /\ UNCHANGED <<probe, web, config, file, runs, seen, seen_set, collected, loop_vars,
                   attempted, sent, failed_at, saves, file_at_start,
                   persisted_before>>

\* lines 223-231: return when nothing was collected; else sort old -> new and
\* enter the loop
SortCollected ==
    /\ pc = "sort"
    /\ IF NothingCollected(collected)
       THEN /\ pc' = "done"
            /\ UNCHANGED collected
       ELSE /\ collected' = SortOldToNew(collected)
            /\ pc' = AfterIteration(1, collected')
    /\ pos' = 1
    /\ posted' = 0
    /\ new_seen' = <<>>
    /\ used_sources' = {}
    /\ UNCHANGED <<probe, web, config, file, runs, seen, seen_set, feed_i, run_log,
                   file_at_start, persisted_before>>

\* the candidate at hand and its fingerprint (lines 233-234)
Candidate == collected[pos]
CandidateFp == Fingerprints[[e |-> Candidate.e, source |-> Candidate.source]]

\* lines 235-239: continue
SkipCandidate ==
    /\ pc = "loop"
    /\ Skipped(CandidateFp, Candidate.source, seen_set, ONE_PER_SOURCE, used_sources)
    /\ pos' = pos + 1
    /\ pc' = AfterIteration(pos + 1, collected)
    /\ UNCHANGED <<probe, web, config, file, runs, seen, seen_set, collected, feed_i, posted,
                   new_seen, used_sources, run_log, file_at_start,
                   persisted_before>>

\* lines 241-251 and 256-257: telegram_send returned
SendDelivered ==
    /\ pc = "loop"
    /\ LET fp == CandidateFp
       IN  /\ ~Skipped(fp, Candidate.source, seen_set, ONE_PER_SOURCE, used_sources)
           /\ sent' = Append(sent, [fp |-> fp, source |-> Candidate.source,
                                    time |-> entry_time(Candidate.e),
                                    ord |-> Candidate.ord, pos |-> pos])
           /\ seen_set' = MarkSeen(seen_set, fp)
           /\ new_seen' = Append(new_seen, fp)
    /\ attempted' = Append(attempted, pos)
    /\ posted' = posted + 1
    /\ used_sources' = used_sources \cup {Candidate.source}
    /\ IF CapReached(posted + 1, MAX_POSTS_PER_RUN)
       THEN /\ pos' = pos
            /\ pc' = "commit"
       ELSE /\ pos' = pos + 1
            /\ pc' = AfterIteration(pos + 1, collected)
    /\ UNCHANGED <<probe, web, config, file, runs, seen, collected, feed_i, fetched, failed_at,
                   saves, file_at_start, persisted_before>>

\* the fingerprint noted in new_seen before telegram_send is called
SendRaised_marking ==
    /\ pc = "loop"
    /\ ~Skipped(CandidateFp, Candidate.source, seen_set, ONE_PER_SOURCE, used_sources)
    /\ attempted' = Append(attempted, pos)
    /\ failed_at' = pos
    /\ new_seen' = Append(new_seen, CandidateFp)
    /\ pos' = pos
    /\ pc' = "commit"
    /\ UNCHANGED <<probe, web, config, file, runs, seen, seen_set, collected,
                   feed_i, posted, used_sources, fetched, sent, saves,
                   file_at_start, persisted_before>>

\* lines 243-244 and 252-254: telegram_send raised
SendRaised ==
    /\ pc = "loop"
    /\ ~Skipped(CandidateFp, Candidate.source, seen_set, ONE_PER_SOURCE, used_sources)
    /\ attempted' = Append(attempted, pos)
    /\ failed_at' = pos
    /\ IF OnSendFailure = "break"
       THEN /\ pos' = pos
            /\ pc' = "commit"
       ELSE /\ pos' = pos + 1
            /\ pc' = AfterIteration(pos + 1, collected)
    /\ UNCHANGED <<probe, web, config, file, runs, seen, seen_set, collected, feed_i, posted,
                   new_seen, used_sources, fetched, sent, saves, file_at_start,
                   persisted_before>>

\* main() returning after the loop without persisting
Commit_skipped ==
    /\ pc = "commit"
    /\ pc' = "done"
    /\ UNCHANGED <<probe, web, config, file, runs, seen, seen_set, collected,
                   feed_i, loop_vars, run_log, file_at_start, persisted_before>>

\* lines 259-261: state["seen"] = (seen + new_seen)[-SEEN_LIMIT:]; save_state
Commit ==
    /\ pc = "commit"
    /\ file' = save_state(File("ok", TruncateSeen(seen \o new_seen, SEEN_LIMIT)))
    /\ saves' = saves + 1
    /\ pc' = "done"
    /\ UNCHANGED <<probe, web, config, runs, seen, seen_set, collected, feed_i, loop_vars,
                   fetched, attempted, sent, failed_at, file_at_start,
                   persisted_before>>

Next ==
    \/ StartRun
    \/ \E doc \in DocsAtHand : FetchParsed(doc)
    \/ FetchRaised
    \/ SortCollected
    \/ SkipCandidate
    \/ SendDelivered
    \/ SendRaised
    \/ Commit

Spec == Init /\ [][Next]_vars

\* the fingerprints of the entries of a set of documents, given by name
FpsOfDocs(names) ==
    UNION {{FpOf(Document(d).entries[k], Document(d)) :
               k \in 1..Len(Document(d).entries)} : d \in names}

\* the documents a feed can hold for good; a feed that is down for good
\* reads as a feed without entries
SteadyDocs(url) == IF FeedDocs(url) = {} THEN {"Nothing"} ELSE FeedDocs(url)

\* repeated runs over feeds whose contents are fixed, from an empty state:
\* SEEN_LIMIT is drawn up to one more than the number of fingerprints in the
\* feeds
InitSteady ==
    /\ \E f \in [1..NumFeeds -> UNION {SteadyDocs(FEED_URLS[i]) : i \in 1..NumFeeds}] :
          /\ \A i \in 1..NumFeeds : f[i] \in SteadyDocs(FEED_URLS[i])
          /\ web = [i \in 1..NumFeeds |-> {f[i]}]
          /\ SEEN_LIMIT \in
                0..(Cardinality(FpsOfDocs({f[i] : i \in 1..NumFeeds})) + 1)
    /\ MAX_POSTS_PER_RUN \in 0..MaxPostsCap
    /\ ONE_PER_SOURCE \in BOOLEAN
    /\ file \in {File("missing", <<>>), File("ok", <<>>)}
    /\ NoRunYet
    /\ probe = NoProbe

\* no fetch raises and every dispatch succeeds
NextSteady ==
    \/ StartRun
    \/ \E doc \in DocsAtHand : FetchParsed(doc)
    \/ SortCollected
    \/ SkipCandidate
    \/ SendDelivered
    \/ Commit

SpecSteady == InitSteady /\ [][NextSteady]_vars

\* the scheduler keeps starting runs and a run that started goes on to its end
SpecSteadyFair == SpecSteady /\ WF_vars(NextSteady)

\* main() over the feeds of the two-sources scenario
InitTwoSources == Unstarted(TwinWeb)
SpecTwoSources == InitTwoSources /\ [][Next]_vars

(***************************************************************************)
(* make_fingerprint alone: an entry a of a feed, and the entry b the feed  *)
(* carries for the same item at another fetch, superficially changed: the  *)
(* case of a letter, whitespace added at an end or to a run of whitespace, *)
(* the case of a letter of an HTML tag, a field wrapped in an HTML tag.    *)
(***************************************************************************)
\* str.upper() on one character of the model's alphabet
UpperChar(c) ==
    CASE c = "a" -> "A"
      [] c = "b" -> "B"
      [] c = "c" -> "C"
      [] c = "h" -> "H"
      [] c = "s" -> "S"
      [] c = "w" -> "W"
      [] OTHER -> c

\* the character in the other case
SwapCase(c) == IF LowerChar(c) # c THEN LowerChar(c) ELSE UpperChar(c)

\* index i of s lies within an HTML tag: between a "<" and the next ">"
InTag(s, i) ==
    /\ \E j \in 1..i : s[j] = "<" /\ \A k \in j..(i - 1) : s[k] # ">"
    /\ \E k \in i..Len(s) : s[k] = ">"

\* s between <b> and </b>
WrapInTag(s) == <<"<", "b", ">">> \o s \o <<"<", "/", "b", ">">>

\* s with character c put in before index i
InsertAt(s, i, c) == SubSeq(s, 1, i - 1) \o <<c>> \o SubSeq(s, i, Len(s))

\* the places of s where more whitespace changes only a run of whitespace or
\* the whitespace around s
SpacePlaces(s) ==
    {i \in 1..(Len(s) + 1) :
        \/ i = 1
        \/ i = Len(s) + 1
        \/ IsSpace(s[i - 1])
        \/ IsSpace(s[i])}

\* the fields of an entry the claim on fingerprints speaks of
ProbeFields == {"title", "summary", "link"}

\* the entries a feed carries at the first fetch
ProbeEntries ==
    {Entry(title, summary, description, link, <<>>, <<>>) :
        title \in {<<"A">>, <<"<", "b", ">", "A", " ", "b", "<", "/", "b", ">">>},
        summary \in {<<>>, <<"x">>},
        description \in {<<>>, <<"x">>},
        link \in {<<>>, <<"/", "/", "h">>}}

\* the state of main() is of no account here: it has not run
InitFingerprint ==
    /\ SEEN_LIMIT = MaxSeenLimit
    /\ MAX_POSTS_PER_RUN = MaxPostsCap
    /\ ONE_PER_SOURCE = TRUE
    /\ file = File("missing", <<>>)
    /\ NoRunYet
    /\ web = MainWeb
    /\ \E e \in ProbeEntries :
          probe = [stage |-> "input", source |-> <<"S", "1">>, a |-> e, b |-> e,
                   n |-> 0, varied |-> {}]

\* entry b with field f set to s, after a change of the kind named
Varied(f, s, kind) ==
    [probe EXCEPT !.b = [probe.b EXCEPT ![f] = s],
                  !.n = probe.n + 1,
                  !.varied = probe.varied \cup {kind}]

\* a letter of field f of entry b changes case
VaryCase(f, i) ==
    /\ probe.stage = "input"
    /\ probe.n < MaxVariations
    /\ LET s == probe.b[f]
       IN  /\ SwapCase(s[i]) # s[i]
           /\ probe' = Varied(f, [s EXCEPT ![i] = SwapCase(s[i])],
                              IF InTag(s, i) THEN "tagcase" ELSE "case")
    /\ UNCHANGED main_vars

\* whitespace is added to field f of entry b, around it or to a run of it
VarySpace(f, i, w) ==
    /\ probe.stage = "input"
    /\ probe.n < MaxVariations
    /\ probe' = Varied(f, InsertAt(probe.b[f], i, w), "space")
    /\ UNCHANGED main_vars

\* field f of entry b comes with HTML markup around it
VaryTags(f) ==
    /\ probe.stage = "input"
    /\ probe.n < MaxVariations
    /\ probe' = Varied(f, WrapInTag(probe.b[f]), "tags")
    /\ UNCHANGED main_vars

\* line 234: make_fingerprint is called for both entries
Fingerprint ==
    /\ probe.stage = "input"
    /\ probe' = [probe EXCEPT !.stage = "hashed"] @@
                 [fp_a |-> make_fingerprint(probe.a, probe.source),
                  fp_b |-> make_fingerprint(probe.b, probe.source)]
    /\ UNCHANGED main_vars

NextFingerprint ==
    \/ \E f \in ProbeFields : \E i \in 1..Len(probe.b[f]) : VaryCase(f, i)
    \/ \E f \in ProbeFields : \E i \in SpacePlaces(probe.b[f]) :
          \E w \in {" ", "\t"} : VarySpace(f, i, w)
    \/ \E f \in ProbeFields : VaryTags(f)
    \/ Fingerprint

SpecFingerprint == InitFingerprint /\ [][NextFingerprint]_vars

(***************************************************************************)
(* Properties.                                                             *)
(***************************************************************************)
\* the list under "seen" a state file holds, empty when it holds none
SeenOf(f) == IF f.kind = "ok" THEN f.seen ELSE <<>>

\* the fingerprints of the items sent in the run so far
SentFps == {sent[i].fp : i \in 1..Len(sent)}

\* the fingerprint of the k-th collected candidate
FpAt(k) == Fingerprints[[e |-> collected[k].e, source |-> collected[k].source]]

\* every feed of FEED_URLS was fetched in this run
AllFetched == Len(fetched) = Len(FEED_URLS)

\* every feed raised or parsed to no entries
AllFeedsEmpty ==
    AllFetched /\ \A i \in 1..Len(fetched) : Document(fetched[i].doc).entries = <<>>

\* C1 as stated: an item whose fingerprint was in the persisted seen list at
\* the end of some earlier run is never sent by a later run.
C1_NoRedeliveryEver == \A i \in 1..Len(sent) : sent[i].fp \notin persisted_before

\* C1 (amended): an item whose fingerprint is in the persisted seen list when
\* a run starts is never sent in that run.
C1_NoRedeliveryOfPersisted ==
    \A i \in 1..Len(sent) : sent[i].fp \notin Range(SeenOf(file_at_start))

\* a later run ended after sending something, having passed over a candidate
\* whose fingerprint an earlier run persisted and the state file still held
C1_Witness ==
    /\ runs >= 2
    /\ pc = "done"
    /\ sent # <<>>
    /\ \E k \in 1..Len(collected) :
          FpAt(k) \in persisted_before \cap Range(SeenOf(file_at_start))

\* the run ended after a send that raised
HaltedRun == pc = "done" /\ failed_at # 0

\* what C2 says of a halted run besides the persisted fingerprints of the
\* sent items: the failed send was the last one attempted, the run persisted
\* once and returned, and no candidate from the failed one on that was not
\* sent had its fingerprint added to the persisted list
C2_Contained ==
    /\ failed_at # 0 =>
          /\ pc \in {"commit", "done"}
          /\ attempted[Len(attempted)] = failed_at
          /\ Len(sent) = Len(attempted) - 1
    /\ HaltedRun =>
          /\ saves = 1
          /\ file.kind = "ok"
          /\ \A k \in failed_at..Len(collected) :
                FpAt(k) \notin SentFps =>
                   FpAt(k) \notin (Range(file.seen) \ Range(seen))

C3_BoundedState ==
    (pc = "done" /\ Len(SeenOf(file_at_start)) <= SEEN_LIMIT)
       => Len(SeenOf(file)) <= SEEN_LIMIT

\* C4 as stated: a run never delivers more than MAX_POSTS_PER_RUN items.
C4_PerRunCap == Len(sent) <= MAX_POSTS_PER_RUN /\ posted <= MAX_POSTS_PER_RUN

\* C5: of two items sent in a run the earlier one has the smaller or equal
\* entry_time, and of two with equal times the one collected first is sent
\* first.
C5_DispatchOrdering ==
    \A i, j \in 1..Len(sent) :
        i < j => /\ sent[i].time <= sent[j].time
                 /\ sent[i].time = sent[j].time => sent[i].ord < sent[j].ord

\* a run sent three items, two of equal time among them, and one that was
\* collected after an item sent later
C5_Witness ==
    /\ pc = "done"
    /\ Len(sent) >= 3
    /\ \E i, j \in 1..Len(sent) : i < j /\ sent[i].time = sent[j].time
    /\ \E i, j \in 1..Len(sent) : i < j /\ sent[i].ord > sent[j].ord

\* C6: with ONE_PER_SOURCE no run sends two items of the same source.
C6_DiversityCap ==
    ONE_PER_SOURCE =>
        \A i, j \in 1..Len(sent) : i # j => sent[i].source # sent[j].source

\* with ONE_PER_SOURCE a run sent two items and left an unseen candidate of
\* a source it had used
C6_Witness ==
    /\ ONE_PER_SOURCE
    /\ pc = "done"
    /\ Len(sent) = 2
    /\ \E k \in 1..Len(collected) :
          /\ FpAt(k) \notin seen_set
          /\ collected[k].source \in used_sources

\* the scenario of C7 at the end of its run: the seen list was empty, one
\* feed returned the entries A, B, C, the other feeds nothing, the cap is 2
\* and no send raised
ScenarioABC ==
    /\ pc = "done"
    /\ seen = <<>>
    /\ MAX_POSTS_PER_RUN = 2
    /\ failed_at = 0
    /\ AllFetched
    /\ \E i \in 1..Len(fetched) :
          /\ fetched[i] = [raised |-> FALSE, doc |-> "ABC"]
          /\ \A j \in 1..Len(fetched) :
                j # i => Document(fetched[j].doc).entries = <<>>

\* what C7 expects of the scenario: A then B are sent and nothing else, the
\* persisted list holds exactly their two fingerprints, C's is not in it
ScenarioABCOutcome ==
    /\ [i \in 1..Len(sent) |-> collected[sent[i].pos].e] = <<EntryA, EntryB>>
    /\ file = File("ok", <<FpOf(EntryA, DocABC), FpOf(EntryB, DocABC)>>)
    /\ FpOf(EntryC, DocABC) \notin Range(file.seen)

\* C7 as stated: for either value of ONE_PER_SOURCE and any SEEN_LIMIT the
\* scenario sends A then B and persists exactly their fingerprints.
C7_ScenarioAnyToggle == ScenarioABC => ScenarioABCOutcome

\* C7 (amended): with ONE_PER_SOURCE disabled and SEEN_LIMIT >= 2 the
\* scenario sends A then B and persists exactly their fingerprints.
C7_ScenarioToggleOff ==
    (ScenarioABC /\ ~ONE_PER_SOURCE /\ SEEN_LIMIT >= 2) => ScenarioABCOutcome

\* the scenario ran with ONE_PER_SOURCE disabled and SEEN_LIMIT >= 2
C7_Witness ==
    /\ ScenarioABC
    /\ ~ONE_PER_SOURCE
    /\ SEEN_LIMIT >= 2
    /\ Len(sent) = 2
    /\ saves = 1

\* C8: when every feed raised or had no entries, the run returns without a
\* send and without save_state, and the state file is what it was.
C8_ZeroCandidates ==
    (AllFeedsEmpty /\ pc # "aborted") =>
        /\ pc \in {"sort", "done"}
        /\ attempted = <<>>
        /\ sent = <<>>
        /\ saves = 0
        /\ file = file_at_start

\* a run over a damaged state file returned after one feed raised and the
\* others had no entries
C8_Witness ==
    /\ pc = "done"
    /\ AllFeedsEmpty
    /\ file.kind = "badjson"
    /\ \E i \in 1..Len(fetched) : fetched[i].raised
    /\ \E i \in 1..Len(fetched) : ~fetched[i].raised

\* the number of entries of the feeds that did not raise
RECURSIVE EntriesFetched(_)
EntriesFetched(n) ==
    IF n = 0 THEN 0
    ELSE EntriesFetched(n - 1)
           + (IF fetched[n].raised THEN 0
              ELSE Len(Document(fetched[n].doc).entries))

\* C9: whichever feeds raise, the run goes on to the other feeds; a feed
\* that raised adds no candidate, every entry of every other feed is
\* collected with its feed's source name, and the loop walks the candidates
\* until they are exhausted, a send raises or the cap is reached.
C9_FetchFailureIsolated ==
    /\ fetched # <<>> => pc # "aborted"
    /\ pc \in {"sort", "loop", "commit", "done"} =>
          /\ AllFetched
          /\ Len(collected) = EntriesFetched(Len(fetched))
    /\ pc \in {"sort", "done"} =>
          \A i \in 1..Len(fetched) :
             ~fetched[i].raised =>
                LET doc == Document(fetched[i].doc)
                    source == parse_feed(doc).source
                IN  \A k \in 1..Len(doc.entries) :
                       \E c \in 1..Len(collected) :
                          /\ collected[c].e = doc.entries[k]
                          /\ collected[c].source = source
    /\ (pc \in {"commit", "done"} /\ collected # <<>>) =>
          \/ pos > Len(collected)
          \/ failed_at # 0
          \/ posted >= MAX_POSTS_PER_RUN

\* the first feed raised, the second had entries, and the run sent one
C9_Witness ==
    /\ pc = "done"
    /\ fetched[1].raised
    /\ \E i \in 2..Len(fetched) :
          ~fetched[i].raised /\ Document(fetched[i].doc).entries # <<>>
    /\ sent # <<>>

\* C10: a run that finds the state file missing, unreadable, not JSON or
\* without a list under "seen" is not aborted; its seen list is empty, so
\* that only what the run itself sent counts as seen.
C10_LoadFailureIsEmpty ==
    (runs >= 1 /\ file_at_start.kind \in RejectedKinds) =>
        /\ pc # "aborted"
        /\ seen = <<>>
        /\ seen_set = Range(new_seen)

\* a run over a state file that is not JSON sent every candidate it had and
\* persisted a list
C10_Witness ==
    /\ pc = "done"
    /\ file_at_start.kind = "badjson"
    /\ file.kind = "ok"
    /\ sent # <<>>
    /\ Len(sent) = Len(collected)

\* C11 as stated: two entries of one source whose title, summary and link
\* differ only in letter casing, in whitespace (runs of it, or around the
\* text) or in HTML markup (tags present or absent, tag casing) have the same
\* fingerprint.
C11_FingerprintStability ==
    probe.stage = "hashed" => probe.fp_a = probe.fp_b

\* the scenario of C12 at the end of its run: the seen list was empty, the two
\* feeds returned entry A alone under the source names S1 and S2,
\* ONE_PER_SOURCE is enabled, the cap is at least 2 and no send raised
ScenarioTwins ==
    /\ pc = "done"
    /\ seen = <<>>
    /\ ONE_PER_SOURCE
    /\ MAX_POSTS_PER_RUN >= 2
    /\ failed_at = 0
    /\ AllFetched
    /\ \E i, j \in 1..Len(fetched) :
          /\ fetched[i] = [raised |-> FALSE, doc |-> "One"]
          /\ fetched[j] = [raised |-> FALSE, doc |-> "Other"]
          /\ \A k \in 1..Len(fetched) :
                k \notin {i, j} => Document(fetched[k].doc).entries = <<>>

\* both entries were sent, under different fingerprints
TwinsBothSent ==
    /\ Len(sent) = 2
    /\ sent[1].fp # sent[2].fp
    /\ SentFps = {FpOf(EntryA, DocOne), FpOf(EntryA, DocOther)}
    /\ {collected[sent[i].pos].e : i \in 1..Len(sent)} = {EntryA}

LastEntries(s, n) == IF Len(s) <= n THEN s ELSE SubSeq(s, Len(s) - n + 1, Len(s))

\* the fingerprints of the items sent in the run, in send order
SentFpList == [i \in 1..Len(sent) |-> sent[i].fp]

\* C13 as stated: a run that collected a candidate persists the last
\* SEEN_LIMIT entries of the seen list it loaded followed by the fingerprints
\* it sent, in send order, for every SEEN_LIMIT >= 0.
C13_CommitContent ==
    (pc = "done" /\ collected # <<>>) =>
        file = File("ok", LastEntries(SeenOf(file_at_start) \o SentFpList,
                                     SEEN_LIMIT))

\* C14: a run that collected a candidate writes the state file exactly once,
\* after its last send attempt: the file is what the run found until the loop
\* is over, no run writes it twice, and the run returns having written it.
C14_SingleCommit ==
    /\ saves <= 1
    /\ saves = 0 => file = file_at_start
    /\ saves = 1 => (pc = "done" /\ file.kind = "ok")
    /\ pc \in {"collect", "sort", "loop", "commit"} => saves = 0
    /\ (pc = "done" /\ collected # <<>>) => saves = 1

\* a run sent two items, was halted by the third send and wrote the file
C14_Witness ==
    /\ pc = "done"
    /\ Len(sent) = 2
    /\ failed_at # 0
    /\ saves = 1
    /\ file # file_at_start

\* an entry without usable content: no title, no summary, no link
IsDegenerate(e) ==
    e.title = <<>> /\ SummaryOrDescription(e) = <<>> /\ e.link = <<>>

\* an entry with a link and nothing else
IsLinkOnly(e) ==
    e.title = <<>> /\ SummaryOrDescription(e) = <<>> /\ e.link # <<>>

\* C15 as stated: an entry whose title, summary and link are all empty is
\* never sent and its fingerprint is never added to the seen list, whereas
\* an entry with a link and nothing else is sent when it is unseen and
\* within the limits of the run.
C15_DegenerateSkipped ==
    /\ \A i \in 1..Len(sent) :
          /\ ~IsDegenerate(collected[sent[i].pos].e)
          /\ \A k \in 1..Len(collected) :
                IsDegenerate(collected[k].e) => sent[i].fp # FpAt(k)
    /\ (pc = "done" /\ failed_at = 0 /\ posted < MAX_POSTS_PER_RUN
          /\ ~ONE_PER_SOURCE) =>
          \A k \in 1..Len(collected) :
             IsLinkOnly(collected[k].e) =>
                FpAt(k) \in Range(seen) \cup SentFps

\* C16: no run sends an item whose fingerprint was in the seen list it
\* loaded, and of the collected candidates that share a fingerprint at most
\* one is sent, with ONE_PER_SOURCE enabled or disabled.
C16_NoDuplicateSend ==
    /\ \A i \in 1..Len(sent) : sent[i].fp \notin Range(seen)
    /\ \A i, j \in 1..Len(sent) : i # j => sent[i].fp # sent[j].fp
    /\ \A k1, k2 \in 1..Len(collected) :
          (k1 # k2 /\ FpAt(k1) = FpAt(k2)) =>
             ~(k1 \in Range(attempted) /\ k2 \in Range(attempted))

\* with ONE_PER_SOURCE disabled a run sent one of two candidates that share
\* a fingerprint and passed over a candidate of the seen list it loaded
C16_Witness ==
    /\ ~ONE_PER_SOURCE
    /\ pc = "done"
    /\ \E k1, k2 \in 1..Len(collected) :
          k1 # k2 /\ FpAt(k1) = FpAt(k2) /\ FpAt(k1) \in SentFps
    /\ \E k \in 1..Len(collected) : FpAt(k) \in Range(seen)
    /\ pos > Len(collected)

\* the indexes in collected of the items sent in the run
DeliveredAt == {sent[i].pos : i \in 1..Len(sent)}

\* the run that ended was halted by a send that raised, or stopped by the cap
\* or by the one-per-source rule
StoppedShort ==
    \/ failed_at # 0
    \/ posted >= MAX_POSTS_PER_RUN
    \/ ONE_PER_SOURCE /\ used_sources # {}

\* a run that went through its loop has ended and the next run starts
NextRunStarts == pc = "done" /\ saves = 1 /\ pc' = "collect"

\* every candidate the loop has dealt with was sent, unless its fingerprint
\* was seen (loaded, or sent in this run), its source was used under
\* ONE_PER_SOURCE, or its send raised
SentWhenReached ==
    \A k \in 1..Len(collected) :
        (pc \in {"loop", "commit", "done"} /\ saves + Len(attempted) > 0
           /\ k < pos) =>
           \/ k \in DeliveredAt
           \/ FpAt(k) \in Range(seen) \cup SentFps
           \/ ONE_PER_SOURCE /\ collected[k].source \in used_sources
           \/ k = failed_at

\* C17 as stated, for a cap and a SEEN_LIMIT of at least 1: after a run that
\* was halted or stopped short, every collected candidate that was not sent
\* has a fingerprint the run did not add, and passes the seen filter of the
\* next run.
C17_UnsentStayEligible ==
    [][(NextRunStarts /\ StoppedShort /\ MAX_POSTS_PER_RUN >= 1
          /\ SEEN_LIMIT >= 1) =>
          \A k \in 1..Len(collected) :
             k \notin DeliveredAt =>
                /\ FpAt(k) \notin Range(new_seen)
                /\ ~AlreadySeen(FpAt(k), seen_set')]_vars

\* C17 (amended): after a run that was halted or stopped short, every
\* collected candidate whose fingerprint is neither in the seen list the run
\* loaded nor the fingerprint of an item the run sent has a fingerprint
\* absent from the persisted list and passes the seen filter of the next run;
\* and in every run a candidate the loop reaches is sent unless it is seen,
\* its source is used under ONE_PER_SOURCE, or its send raises.
C17_UnseenUnsentStayEligible ==
    /\ []SentWhenReached
    /\ [][(NextRunStarts /\ StoppedShort) =>
             \A k \in 1..Len(collected) :
                FpAt(k) \notin Range(seen) \cup SentFps =>
                   /\ FpAt(k) \notin Range(file.seen)
                   /\ ~AlreadySeen(FpAt(k), seen_set')]_vars

\* a run with a cap of 2 found the fingerprints of A and B persisted, so that
\* an earlier run over the feed of A, B, C had left C unsent, and sent C
C17_Witness ==
    /\ runs >= 2
    /\ pc = "done"
    /\ MAX_POSTS_PER_RUN = 2
    /\ file_at_start = File("ok", <<FpOf(EntryA, DocABC), FpOf(EntryB, DocABC)>>)
    /\ SentFps = {FpOf(EntryC, DocABC)}

\* no entry of the list occurs twice
NoDuplicates(s) == \A i, j \in 1..Len(s) : i # j => s[i] # s[j]

\* C18: when the seen list a run loaded holds no fingerprint twice, neither
\* does the list the run builds and persists; so the state file never holds
\* a fingerprint twice over runs that start from a list without duplicates.
C18_DuplicateFree ==
    /\ NoDuplicates(SeenOf(file_at_start)) =>
          /\ NoDuplicates(seen \o new_seen)
          /\ NoDuplicates(SeenOf(file))
    /\ NoDuplicates(SeenOf(file))

\* a later run loaded a list of a fingerprint it collected again, sent an
\* item and persisted a list of two fingerprints
C18_Witness ==
    /\ runs >= 2
    /\ pc = "done"
    /\ saves = 1
    /\ sent # <<>>
    /\ Len(file.seen) >= 2
    /\ \E k \in 1..Len(collected) : FpAt(k) \in Range(seen)

\* the distinct fingerprints in the feeds
FeedFps == FpsOfDocs(UNION {web[i] : i \in 1..NumFeeds})

\* the smaller of two numbers
Min(a, b) == IF a <= b THEN a ELSE b

\* the configuration C19 speaks of: a cap of at least 1 and a SEEN_LIMIT of
\* at least the number of distinct fingerprints in the feeds
RoomForAll == MAX_POSTS_PER_RUN >= 1 /\ SEEN_LIMIT >= Cardinality(FeedFps)

\* no run sends a fingerprint an earlier run or itself has sent, every run
\* sends at least one until all are persisted (the r-th run leaves at least r
\* of them persisted, or all), and a run that finds all persisted sends
\* nothing and leaves the persisted list unchanged
OnceEachThenIdle ==
    RoomForAll =>
        /\ \A i \in 1..Len(sent) :
              /\ sent[i].fp \notin persisted_before
              /\ sent[i].fp \in FeedFps
              /\ \A j \in 1..Len(sent) : i # j => sent[i].fp # sent[j].fp
        /\ pc = "done" =>
              /\ Range(SeenOf(file)) = persisted_before \cup Range(seen) \cup SentFps
              /\ Cardinality(Range(SeenOf(file))) >= Min(runs, Cardinality(FeedFps))
              /\ sent # <<>> \/ Range(SeenOf(file)) = FeedFps
              /\ Range(seen) = FeedFps =>
                    /\ sent = <<>>
                    /\ SeenOf(file) = SeenOf(file_at_start)

\* C19: with fixed feeds, every dispatch succeeding, MAX_POSTS_PER_RUN >= 1
\* and SEEN_LIMIT at least the number of distinct fingerprints in the feeds,
\* runs from an empty state send every fingerprint exactly once and then
\* nothing: each run sends at least one fingerprint not sent before until all
\* are persisted, and when the runs are as many as the fingerprints, the
\* persisted list ends up holding them all for good.
C19_Convergence ==
    /\ []OnceEachThenIdle
    /\ (RoomForAll /\ Cardinality(FeedFps) <= MaxRuns) =>
          <>[](Range(SeenOf(file)) = FeedFps)

\* with a cap of 2 and three or more fingerprints in the feeds, the third run
\* found them all persisted, sent nothing and left the list as it was
C19_Witness ==
    /\ MAX_POSTS_PER_RUN = 2
    /\ Cardinality(FeedFps) >= 3
    /\ SEEN_LIMIT >= Cardinality(FeedFps)
    /\ runs = 3
    /\ pc = "done"
    /\ Range(seen) = FeedFps
    /\ sent = <<>>
    /\ saves = 1
    /\ file = file_at_start

====
